---- MODULE Spec2Model ----
(***************************************************************************)
(* Model of the BWT water-softener integration:                            *)
(*   custom_components/bwt/bwt_client.py   BWTClient (login, fetch_data,   *)
(*                                         close, _process_device_data)    *)
(*   custom_components/bwt/__init__.py     async_setup_entry (coordinator, *)
(*                                         registry), async_unload_entry   *)
(*   custom_components/bwt/sensor.py       available, native_value         *)
(* The client is a state machine whose steps are the code between two      *)
(* awaits on the network; the normalizer is a pure operator.               *)
(***************************************************************************)
EXTENDS Integers, Sequences, FiniteSets, TLC

VARIABLES
    cookies,            \* BWTClient.cookies: the stored cookie set
    is_authenticated,   \* BWTClient.is_authenticated
    session,            \* BWTClient._session: "none" or "open"
    pc,                 \* where the running coroutine is suspended
    caller,             \* who awaits the login in flight
    op,                 \* history: the operation running or last run
    startAuth,          \* history: is_authenticated when fetch_data was entered
    events,             \* history: requests issued by the current invocation
    logins,             \* history: the logins of the current invocation
    lastLogin,          \* history: the most recent login of the client
    gets,               \* history: the GETs of the current invocation
    result,             \* history: what the last fetch_data handed its caller
    credentials,        \* BWTClient.username, password, device_receipt_line_key
    coordinator,        \* the DataUpdateCoordinator polling fetch_data
    hass_data,          \* hass.data[DOMAIN][entry_id]: "unset", "registered", "popped"
    poll,               \* history: how the polls before this one ended
    norm,               \* input and output of a direct _process_device_data call
    sensor,             \* a meter reading and what the two derived sensors report
    tasks,              \* two concurrent invocations: where each is suspended
    issued              \* history: the cookie sets of the login responses so far

vars == <<cookies, is_authenticated, session, pc, caller, op, startAuth,
          events, logins, lastLogin, gets, result, credentials, coordinator,
          hass_data, poll, norm, sensor, tasks, issued>>

hostVars == <<coordinator, hass_data, poll>>

clientVars == <<cookies, is_authenticated, session, pc, caller, op, startAuth,
                events, logins, lastLogin, gets, result, credentials, hostVars>>

\* Variables of the specification of two concurrent invocations.
concVars == <<tasks, issued>>

\* Variables of the specifications that exercise one part by itself.
calcVars == <<norm, sensor, concVars>>

(***************************************************************************)
(* Bounds of the model.                                                    *)
(***************************************************************************)
MaxCookies == 2      \* distinct cookies the vendor may set
MaxCodes == 2        \* longest codes array (normalizer inputs)
MaxRowLen == 2       \* longest row of lines (normalizer inputs)
MaxLines == 2        \* most rows of lines (normalizer inputs)

HTTP_OK == 200

(***************************************************************************)
(* JSON values.  A scalar is a tagged pair so that values of different     *)
(* JSON types can be compared.                                             *)
(***************************************************************************)
IntV(n) == <<"int", n>>
BoolV(b) == <<"bool", IF b THEN 1 ELSE 0>>
StrV(n) == <<"str", n>>
Absent == <<"absent", 0>>           \* the key is not in the dict

EmptyMap == [k \in {} |-> Absent]   \* the Python dict {}

KnownCodes == {"waterUse", "regenCount", "powerOutage", "saltAlarm"}
CodeNames == {"date"} \cup KnownCodes

SnapshotKeys == {"date", "water_consumption", "regeneration_count", "power_outage",
                 "salt_alarm", "online", "connected", "last_seen", "history"}
MeasuredKeys == {"date", "water_consumption", "regeneration_count", "power_outage",
                 "salt_alarm"}

(***************************************************************************)
(* Python list operations used by the normalizer.                          *)
(***************************************************************************)
\* lst[i] is defined for -len <= i < len; anything else is an IndexError.
PyInRange(lst, i) == -Len(lst) <= i /\ i < Len(lst)

\* lst[i], with Python's negative indexing (lst[-1] is the last element).
PyGet(lst, i) == IF i >= 0 THEN lst[i + 1] ELSE lst[Len(lst) + i + 1]

\* codes.index(c) if c in codes else -1
CodeIndex(codes, c) ==
    IF \E i \in 1..Len(codes) : codes[i] = c
    THEN (CHOOSE i \in 1..Len(codes) :
              codes[i] = c /\ \A j \in 1..(i - 1) : codes[j] # c) - 1
    ELSE -1

\* A mutated guard: the sentinel -1 passes, and line[-1] is read.
HasIndexSentinelPasses(idx) == idx >= -1

\* the guard `if water_index >= 0` (and its three siblings)
HasIndex(idx) == idx >= 0

\* line[idx] if idx >= 0 else default
Field(line, idx, default) == IF HasIndex(idx) THEN PyGet(line, idx) ELSE default

\* The indices at which one row is read.
RowReads(codes) ==
    {0} \cup {CodeIndex(codes, c) : c \in {k \in KnownCodes : HasIndex(CodeIndex(codes, k))}}

\* Whether extracting one row raises IndexError.
ExtractRaises(line, codes) == \E i \in RowReads(codes) : ~PyInRange(line, i)

\* The five measured fields of one row (defined when ExtractRaises is false).
Extract(line, codes) ==
    [date               |-> PyGet(line, 0),
     water_consumption  |-> Field(line, CodeIndex(codes, "waterUse"), IntV(0)),
     regeneration_count |-> Field(line, CodeIndex(codes, "regenCount"), IntV(0)),
     power_outage       |-> Field(line, CodeIndex(codes, "powerOutage"), BoolV(FALSE)),
     salt_alarm         |-> Field(line, CodeIndex(codes, "saltAlarm"), BoolV(FALSE))]

\* A mutated lookup: the default is dropped, an absent key stays absent.
GetOrNone(v, default) == v

\* dict.get(key, default) on an optional scalar
GetOr(v, default) == IF v = Absent THEN default ELSE v

(***************************************************************************)
(* The dataset dict.  ddh is the deviceDataHistory member:                 *)
(*   kind "absent" (no such key), "null" (JSON null) or "dict".            *)
(***************************************************************************)
NoDdh == [kind |-> "absent", hasCodes |-> FALSE, codes |-> <<>>,
          hasLines |-> FALSE, lines |-> <<>>]
NullDdh == [kind |-> "null", hasCodes |-> FALSE, codes |-> <<>>,
            hasLines |-> FALSE, lines |-> <<>>]

EmptyDataset == [online |-> Absent, connected |-> Absent,
                 lastSeenDateTime |-> Absent, ddh |-> NoDdh]

\* `not data`
DictIsEmpty(data) ==
    /\ data.online = Absent
    /\ data.connected = Absent
    /\ data.lastSeenDateTime = Absent
    /\ data.ddh.kind = "absent"

Returned(v) == [exc |-> "none", val |-> v]
Raised(kind) == [exc |-> kind, val |-> EmptyMap]

\* The whole history: one entry per row, in the order of lines.
HistoryOf(lines, codes) == [i \in 1..Len(lines) |-> Extract(lines[i], codes)]

\* The row the snapshot is taken from.
LatestLine(lines) == lines[1]

\* A mutated return: a missing structure is reported by an exception.
InvalidDataRaisesKeyError == Raised("KeyError")

\* _LOGGER.error("Invalid data received from BWT"); return {}
InvalidDataResult == Returned(EmptyMap)

\* BWTClient._process_device_data
process_device_data(data) ==
    IF DictIsEmpty(data) \/ data.ddh.kind = "absent" THEN InvalidDataResult
    ELSE IF data.ddh.kind = "null" THEN Raised("TypeError")
    ELSE IF ~data.ddh.hasLines THEN InvalidDataResult
    ELSE
      LET codes == IF data.ddh.hasCodes THEN data.ddh.codes ELSE <<>>
          lines == data.ddh.lines
      IN IF lines = <<>> THEN Returned(EmptyMap)
         ELSE IF LatestLine(lines) = <<>> THEN Returned(EmptyMap)
         ELSE IF \E i \in 1..Len(lines) : ExtractRaises(lines[i], codes)
              THEN Raised("IndexError")
         ELSE LET latest == Extract(LatestLine(lines), codes)
              IN Returned(
                   [date               |-> latest.date,
                    water_consumption  |-> latest.water_consumption,
                    regeneration_count |-> latest.regeneration_count,
                    power_outage       |-> latest.power_outage,
                    salt_alarm         |-> latest.salt_alarm,
                    online             |-> GetOr(data.online, BoolV(FALSE)),
                    connected          |-> GetOr(data.connected, BoolV(FALSE)),
                    last_seen          |-> GetOr(data.lastSeenDateTime, StrV(0)),
                    history            |-> HistoryOf(lines, codes)])

(***************************************************************************)
(* What the vendor can answer.                                             *)
(***************************************************************************)
CookieNames == 1..MaxCookies
Statuses == {HTTP_OK, 204, 401}

\* Exception classes the code can meet; all derive from Exception.
ExceptionSubclasses ==
    {"ClientError", "JSONDecodeError", "AttributeError", "IndexError", "TypeError",
     "KeyError"}

\* session.post(...): a network error, or a response with status and cookies.
LoginOutcomes ==
    {[exc |-> "ClientError", status |-> 0, cookies |-> {}]}
    \cup [exc : {"none"}, status : Statuses, cookies : SUBSET CookieNames]

\* Datasets the data endpoint answers with in the client model.
DdhOf(codes, lines) ==
    [kind |-> "dict", hasCodes |-> TRUE, codes |-> codes, hasLines |-> TRUE, lines |-> lines]
DatasetA ==
    [online |-> BoolV(TRUE), connected |-> BoolV(TRUE), lastSeenDateTime |-> StrV(1),
     ddh |-> DdhOf(<<"date", "waterUse">>, << <<StrV(1), IntV(7)>> >>)]
DatasetB ==
    [online |-> Absent, connected |-> Absent, lastSeenDateTime |-> Absent,
     ddh |-> DdhOf(<<"date", "waterUse">>, << <<StrV(2), IntV(8)>>, <<StrV(1), IntV(7)>> >>)]
DatasetShortRow ==
    [online |-> BoolV(TRUE), connected |-> Absent, lastSeenDateTime |-> Absent,
     ddh |-> DdhOf(<<"date", "waterUse">>, << <<StrV(1)>> >>)]
DatasetNoLines ==
    [online |-> BoolV(TRUE), connected |-> Absent, lastSeenDateTime |-> Absent,
     ddh |-> [kind |-> "dict", hasCodes |-> TRUE, codes |-> <<"date">>,
              hasLines |-> FALSE, lines |-> <<>>]]
ClientDatasets == {DatasetA, DatasetB, DatasetShortRow, DatasetNoLines}

\* Response bodies: not JSON at all, a JSON list, a dict without 'dataset',
\* a dict with a dataset.
NotJsonBody == [kind |-> "notjson", hasDataset |-> FALSE, dataset |-> EmptyDataset]
ListBody == [kind |-> "list", hasDataset |-> FALSE, dataset |-> EmptyDataset]
NoDatasetBody == [kind |-> "dict", hasDataset |-> FALSE, dataset |-> EmptyDataset]
BodyOf(d) == [kind |-> "dict", hasDataset |-> TRUE, dataset |-> d]
Bodies == {NotJsonBody, ListBody, NoDatasetBody} \cup {BodyOf(d) : d \in ClientDatasets}

\* session.get(...): a network error, or a response with status and body.
NetworkError == [exc |-> "ClientError", status |-> 0, body |-> NotJsonBody]
Pending == [exc |-> "pending", status |-> 0, body |-> NotJsonBody]
GetOutcomes == {NetworkError} \cup [exc : {"none"}, status : Statuses, body : Bodies]

(***************************************************************************)
(* BWTClient.login, as functions of the POST outcome.                      *)
(***************************************************************************)
\* A mutated handler: only network errors are caught.
CatchesOnlyClientError(kind) == kind = "ClientError"

\* `except Exception`, in login and in fetch_data
CatchesException(kind) == kind \in ExceptionSubclasses

\* the branch `if response.status != 200: return False`
LoginRejected(o) == o.exc = "none" /\ o.status # HTTP_OK

\* A mutated assignment: the response's cookies are merged into the old set.
LoginCookiesMerged(o, old) ==
    IF o.exc = "none" /\ ~LoginRejected(o) THEN old \cup o.cookies ELSE old

\* self.cookies after login: replaced by the response's cookies on a 200
\* answer (also when there are none), untouched otherwise.
LoginCookies(o, old) ==
    IF o.exc = "none" /\ ~LoginRejected(o) THEN o.cookies ELSE old

\* The value login returns.
LoginReturn(o) == o.exc = "none" /\ ~LoginRejected(o) /\ LoginCookies(o, {}) # {}

\* A mutated assignment: a failed login clears the flag.
LoginAuthCleared(o, old) == LoginReturn(o)

\* self.is_authenticated after login: set on success, never cleared.
LoginAuth(o, old) == IF LoginReturn(o) THEN TRUE ELSE old

\* Whether the exception of the POST escapes login (its try covers it all).
LoginRaises(o) == o.exc # "none" /\ ~CatchesException(o.exc)

\* The history record of one login.
LoginRecord(o) ==
    [done |-> TRUE, outcome |-> o, ret |-> LoginReturn(o), raised |-> LoginRaises(o),
     authBefore |-> is_authenticated]

NoLogin ==
    [done |-> FALSE, outcome |-> [exc |-> "ClientError", status |-> 0, cookies |-> {}],
     ret |-> FALSE, raised |-> FALSE, authBefore |-> FALSE]

\* A mutated branch: the GET is issued whatever login returned.
ProceedAlways(success) == TRUE

\* A mutated branch: fetch_data gives up whatever login returned.
ProceedNever(success) == FALSE

\* `if not success: return {}` after the login that precedes the first GET
ProceedAfterLogin(success) == success

\* A mutated branch: a failed GET is not retried.
NeedsRetryNever(r) == FALSE

\* `if response.status != 200:` on the first GET
NeedsRetry(r) == r.status # HTTP_OK

\* `if retry_response.status != 200: return {}`
RetryFailed(r) == r.status # HTTP_OK

\* A mutated request: the stored cookies are not attached.
GetCookiesNone(stored) == {}

\* session.get(url, cookies=self.cookies): the cookies a GET carries
GetCookies(stored) == stored

\* A mutated retry: the body of the first response is parsed again.
RetryPayloadFirst(first, retry) == first.body

\* data = await retry_response.json(): the body the retry branch parses
RetryPayload(first, retry) == retry.body

(***************************************************************************)
(* BWTClient.fetch_data, from a 200 response to its return value.          *)
(***************************************************************************)
\* A mutated guard: fetch_data logs in on every entry.
NeedsLoginAlways(auth) == TRUE

\* `if not self.is_authenticated:` on entry of fetch_data
NeedsLogin(auth) == ~auth

\* data = await response.json(); self._process_device_data(data.get('dataset', {}))
ParseAndProcess(body) ==
    IF body.kind = "notjson" THEN Raised("JSONDecodeError")
    ELSE IF body.kind = "list" THEN Raised("AttributeError")
    ELSE process_device_data(IF body.hasDataset THEN body.dataset ELSE EmptyDataset)

\* What the try/except of fetch_data hands the caller for an outcome of its
\* body: exc "none" and a mapping, or the exception it lets through.
HandOver(o) ==
    IF o.exc = "none" THEN o
    ELSE IF CatchesException(o.exc) THEN Returned(EmptyMap)
    ELSE o

NoResult == [exc |-> "pending", val |-> EmptyMap]

\* session.get(url, cookies=self.cookies): the request and the cookies it carries
IssueGet(gs, stored) == Append(gs, [cookies |-> GetCookies(stored), resp |-> Pending])

Answered(gs, r) == [gs EXCEPT ![Len(gs)].resp = r]

(***************************************************************************)
(* Python float arithmetic of the sensors.  A positive double is its       *)
(* 53-bit mantissa, held as the upper 27 bits (hi) and the lower 26 (lo),  *)
(* and the exponent of its leading bit: (hi * 2^26 + lo) * 2^(exp - 52).   *)
(* The decimal values the sensors report are counted in hundredths.        *)
(***************************************************************************)
LoRange == 2^26      \* lo < LoRange, LoRange <= hi < 2 * LoRange
Chunk == 2^13        \* quotient bits produced per division step

PyZero == [hi |-> 0, lo |-> 0, exp |-> 0]

\* n/d scaled by a power of two into [1, 2): the exponent of its leading bit.
RECURSIVE Normalize(_, _, _)
Normalize(n, d, e) ==
    IF n >= 2 * d THEN Normalize(n, 2 * d, e + 1)
    ELSE IF n < d THEN Normalize(2 * n, d, e - 1)
    ELSE [n |-> n, d |-> d, exp |-> e]

\* The first 53 binary digits of n/d (n, d > 0), by long division, and the
\* remainder left after them.
Expansion(n, d) ==
    LET q == Normalize(n, d, 0)
        r0 == q.n - q.d
        q1 == (r0 * Chunk) \div q.d
        r1 == (r0 * Chunk) % q.d
        q2 == (r1 * Chunk) \div q.d
        r2 == (r1 * Chunk) % q.d
        q3 == (r2 * Chunk) \div q.d
        r3 == (r2 * Chunk) % q.d
        q4 == (r3 * Chunk) \div q.d
        r4 == (r3 * Chunk) % q.d
    IN [hi |-> LoRange + q1 * Chunk + q2, lo |-> q3 * Chunk + q4, exp |-> q.exp,
        rem |-> r4, d |-> q.d]

\* The next double above.
NextUp(f) ==
    IF f.lo + 1 < LoRange THEN [f EXCEPT !.lo = f.lo + 1]
    ELSE IF f.hi + 1 < 2 * LoRange THEN [f EXCEPT !.lo = 0, !.hi = f.hi + 1]
    ELSE [hi |-> LoRange, lo |-> 0, exp |-> f.exp + 1]

\* Round to nearest, ties to even: kept is the truncated mantissa, guard the
\* first bit dropped, sticky whether anything non-zero follows it.
RoundNearestEven(kept, guard, sticky) ==
    IF guard = 1 /\ (sticky \/ kept.lo % 2 = 1) THEN NextUp(kept) ELSE kept

\* n / d for two ints: the double nearest to the quotient.
TrueDivide(n, d) ==
    IF n = 0 THEN PyZero
    ELSE LET x == Expansion(n, d)
         IN RoundNearestEven([hi |-> x.hi, lo |-> x.lo, exp |-> x.exp],
                             IF 2 * x.rem >= x.d THEN 1 ELSE 0,
                             2 * x.rem # x.d /\ x.rem # 0)

\* How many bits hi has beyond its 27.
RECURSIVE ExtraBits(_)
ExtraBits(hi) == IF hi < 2 * LoRange THEN 0 ELSE 1 + ExtraBits(hi \div 2)

\* f * (c / 2) for a small natural c >= 1: the double nearest to the product.
TimesHalves(f, c) ==
    IF f = PyZero THEN PyZero
    ELSE LET low == f.lo * c
             high == f.hi * c + low \div LoRange
             s == ExtraBits(high)
             dropped == (low % LoRange) % 2^s
         IN RoundNearestEven(
                [hi |-> high \div 2^s,
                 lo |-> (high % 2^s) * (LoRange \div 2^s) + (low % LoRange) \div 2^s,
                 exp |-> f.exp + s - 1],
                IF s > 0 THEN dropped \div 2^(s - 1) ELSE 0,
                s > 0 /\ dropped % 2^(s - 1) # 0)

\* The sign of f - n/d (n, d > 0).
Compare(f, n, d) ==
    IF f = PyZero THEN -1
    ELSE LET x == Expansion(n, d)
         IN IF f.exp # x.exp THEN (IF f.exp > x.exp THEN 1 ELSE -1)
            ELSE IF f.hi # x.hi THEN (IF f.hi > x.hi THEN 1 ELSE -1)
            ELSE IF f.lo # x.lo THEN (IF f.lo > x.lo THEN 1 ELSE -1)
            ELSE IF x.rem # 0 THEN -1 ELSE 0

\* round(f, 2) in hundredths: Python rounds the exact value of the double,
\* ties to even.  below is the hundredth under the quotient f stands for;
\* f differs from that quotient by less than 2^-50 of its size, so the
\* result is below or below + 1, as f lies under or over their midpoint.
Round2(f, below) ==
    LET c == Compare(f, 2 * below + 1, 200)
    IN IF c < 0 THEN below
       ELSE IF c > 0 THEN below + 1
       ELSE IF below % 2 = 0 THEN below ELSE below + 1

\* round(water_consumption_liters / 1000, 2), in hundredths of a cubic meter
CubicMeters(liters) == Round2(TrueDivide(liters, 1000), liters \div 10)

\* A mutated cost: the rounded cubic meters are multiplied by the price.
WaterCostOfRounded(liters, price) ==
    Round2(TimesHalves(TrueDivide(CubicMeters(liters), 100), price),
           (CubicMeters(liters) * price) \div 2)

\* round(water_consumption_liters / 1000 * self._water_price, 2), in cents;
\* the price is counted in half euros.
WaterCost(liters, price) ==
    Round2(TimesHalves(TrueDivide(liters, 1000), price), (liters * price) \div 20)

(***************************************************************************)
(* The sensors, as functions of the coordinator they read.                 *)
(***************************************************************************)
DEFAULT_WATER_PRICE == 7     \* 3.5 euro per cubic meter, in half euros

NoneV == <<"none", 0>>         \* Python's None
FloatV(h) == <<"float", h>>    \* a float of two decimals, in hundredths

\* The six entities of sensor.async_setup_entry and their sensor_key.
SensorKey ==
    [liters |-> "water_consumption", cubic_meters |-> "water_consumption",
     cost |-> "water_consumption", regeneration_count |-> "regeneration_count",
     salt_alarm |-> "salt_alarm", power_outage |-> "power_outage"]
Sensors == DOMAIN SensorKey

\* BWTBaseSensor.available
available(c, key) ==
    /\ c.last_update_success
    /\ c.refreshed /\ c.data # EmptyMap
    /\ key \in DOMAIN c.data

\* native_value of the entity s: of BWTBaseSensor, and as the cubic-meter
\* and the cost sensor override it.
native_value(c, s, price) ==
    IF ~available(c, SensorKey[s]) THEN NoneV
    ELSE IF s = "cubic_meters" THEN FloatV(CubicMeters(c.data[SensorKey[s]][2]))
    ELSE IF s = "cost" THEN FloatV(WaterCost(c.data[SensorKey[s]][2], price))
    ELSE c.data[SensorKey[s]]

SensorIdle == [read |-> FALSE, liters |-> 0, price |-> DEFAULT_WATER_PRICE,
               cubic_meters |-> NoneV, cost |-> NoneV]

(***************************************************************************)
(* The client's state after construction.                                  *)
(***************************************************************************)
NormIdle == [called |-> FALSE, data |-> EmptyDataset, out |-> NoResult, reads |-> {}]

Tasks == {"a", "b"}
TaskIdle == [pc |-> "idle", caller |-> "none", sent |-> {}]
ConcIdle == tasks = [t \in Tasks |-> TaskIdle] /\ issued = {}

\* The arguments of BWTClient(username, password, device_key).
Credentials == [username |-> "user", password |-> "secret",
                device_receipt_line_key |-> "key"]

\* The coordinator before its first refresh: data is None.
CoordinatorInit == [refreshed |-> FALSE, data |-> EmptyMap, last_update_success |-> TRUE]

\* A mutated refresh: an empty result keeps the data of the poll before.
RefreshKeepsLast(c, res) ==
    IF res.exc = "none" /\ res.val # EmptyMap
    THEN [refreshed |-> TRUE, data |-> res.val, last_update_success |-> TRUE]
    ELSE c

\* One refresh of the coordinator built with update_method=client.fetch_data:
\* it stores what fetch_data returned; had fetch_data raised, it would keep
\* its data and record the failure.
Refresh(c, res) ==
    IF res.exc = "none"
    THEN [refreshed |-> TRUE, data |-> res.val, last_update_success |-> TRUE]
    ELSE [c EXCEPT !.last_update_success = FALSE]

\* async_setup_entry after its first refresh: the entry is registered (an
\* exception out of the first refresh would abort the setup).
Registered(h, res) == IF h = "unset" /\ res.exc = "none" THEN "registered" ELSE h

\* How a poll ended, for the polls that follow.
Ended(res) ==
    IF res.exc # "none" THEN "raised"
    ELSE IF res.val = EmptyMap THEN "failed" ELSE "snapshot"

NoPoll == [prev |-> "none", last |-> "none", fresh |-> FALSE]

\* fetch_data is entered: what is known of the polls before it.
PollEntered(p, everLoggedIn) ==
    [prev |-> p.last, last |-> "running", fresh |-> p.last = "none" /\ ~everLoggedIn]

\* Whether the invocation ends with this step, and what its caller then does:
\* the coordinator stores the result, the setup registers the entry.
poll_returns ==
    /\ coordinator' = IF pc' = "idle" THEN Refresh(coordinator, result') ELSE coordinator
    /\ hass_data' = IF pc' = "idle" THEN Registered(hass_data, result') ELSE hass_data
    /\ poll' = IF pc' = "idle" THEN [poll EXCEPT !.last = Ended(result')] ELSE poll

ClientInit ==
    /\ cookies = {}
    /\ is_authenticated = FALSE
    /\ session = "none"
    /\ pc = "idle"
    /\ caller = "none"
    /\ op = "none"
    /\ startAuth = FALSE
    /\ events = <<>>
    /\ logins = <<>>
    /\ lastLogin = NoLogin
    /\ gets = <<>>
    /\ result = NoResult
    /\ credentials = Credentials
    /\ coordinator = CoordinatorInit
    /\ hass_data = "unset"
    /\ poll = NoPoll

Init == ClientInit /\ norm = NormIdle /\ sensor = SensorIdle /\ ConcIdle

(***************************************************************************)
(* Actions of the client.  Each is the code run between two awaits.        *)
(***************************************************************************)
\* login() called by the host (config flow): up to the await of the POST.
login ==
    /\ pc = "idle" /\ hass_data # "popped"
    /\ session' = "open"
    /\ pc' = "login"
    /\ caller' = "direct"
    /\ op' = "login"
    /\ startAuth' = is_authenticated
    /\ events' = <<"login">>
    /\ logins' = <<>>
    /\ gets' = <<>>
    /\ result' = NoResult
    /\ UNCHANGED <<cookies, is_authenticated, lastLogin, credentials, hostVars, calcVars>>

\* The POST is answered and login() returns to the host.
login_returns ==
    /\ pc = "login" /\ caller = "direct"
    /\ \E o \in LoginOutcomes :
         /\ cookies' = LoginCookies(o, cookies)
         /\ is_authenticated' = LoginAuth(o, is_authenticated)
         /\ logins' = Append(logins, LoginRecord(o))
         /\ lastLogin' = LoginRecord(o)
    /\ pc' = "idle"
    /\ caller' = "none"
    /\ UNCHANGED <<session, op, startAuth, events, gets, result, credentials,
                   hostVars, calcVars>>

\* fetch_data() is entered: login first when unauthenticated, else the GET.
fetch_data ==
    /\ pc = "idle" /\ hass_data # "popped"
    /\ poll' = PollEntered(poll, lastLogin.done)
    /\ op' = "fetch"
    /\ startAuth' = is_authenticated
    /\ session' = "open"
    /\ logins' = <<>>
    /\ result' = NoResult
    /\ IF NeedsLogin(is_authenticated)
       THEN /\ pc' = "login"
            /\ caller' = "pre"
            /\ events' = <<"login">>
            /\ gets' = <<>>
       ELSE /\ pc' = "get1"
            /\ caller' = "none"
            /\ events' = <<"get">>
            /\ gets' = IssueGet(<<>>, cookies)
    /\ UNCHANGED <<cookies, is_authenticated, lastLogin, credentials, coordinator,
                   hass_data, calcVars>>

\* The login before the first GET is answered: on failure fetch_data
\* returns {}, on success it issues the GET.
fetch_data_after_login ==
    /\ pc = "login" /\ caller = "pre"
    /\ \E o \in LoginOutcomes :
         /\ cookies' = LoginCookies(o, cookies)
         /\ is_authenticated' = LoginAuth(o, is_authenticated)
         /\ logins' = Append(logins, LoginRecord(o))
         /\ lastLogin' = LoginRecord(o)
         /\ IF LoginRaises(o)
            THEN /\ pc' = "idle"
                 /\ result' = Raised(o.exc)
                 /\ UNCHANGED <<events, gets>>
            ELSE IF ~ProceedAfterLogin(LoginReturn(o))
            THEN /\ pc' = "idle"
                 /\ result' = Returned(EmptyMap)
                 /\ UNCHANGED <<events, gets>>
            ELSE /\ pc' = "get1"
                 /\ events' = Append(events, "get")
                 /\ gets' = IssueGet(gets, LoginCookies(o, cookies))
                 /\ UNCHANGED result
    /\ caller' = "none"
    /\ poll_returns
    /\ UNCHANGED <<session, op, startAuth, credentials, calcVars>>

\* The first GET is answered.
fetch_data_response ==
    /\ pc = "get1"
    /\ \E r \in GetOutcomes :
         IF r.exc # "none"
         THEN /\ result' = HandOver(Raised(r.exc))
              /\ gets' = Answered(gets, r)
              /\ pc' = "idle"
              /\ UNCHANGED <<caller, events>>
         ELSE IF NeedsRetry(r)
         THEN /\ pc' = "login"
              /\ caller' = "re"
              /\ events' = Append(events, "login")
              /\ gets' = Answered(gets, r)
              /\ UNCHANGED result
         ELSE /\ result' = HandOver(ParseAndProcess(r.body))
              /\ gets' = Answered(gets, r)
              /\ pc' = "idle"
              /\ UNCHANGED <<caller, events>>
    /\ poll_returns
    /\ UNCHANGED <<cookies, is_authenticated, session, op, startAuth, logins,
                   lastLogin, credentials, calcVars>>

\* The re-login is answered: whatever it returned, the GET is retried.
fetch_data_after_relogin ==
    /\ pc = "login" /\ caller = "re"
    /\ \E o \in LoginOutcomes :
         /\ cookies' = LoginCookies(o, cookies)
         /\ is_authenticated' = LoginAuth(o, is_authenticated)
         /\ logins' = Append(logins, LoginRecord(o))
         /\ lastLogin' = LoginRecord(o)
         /\ IF LoginRaises(o)
            THEN /\ pc' = "idle"
                 /\ result' = HandOver(Raised(o.exc))
                 /\ UNCHANGED <<events, gets>>
            ELSE /\ pc' = "get2"
                 /\ events' = Append(events, "get")
                 /\ gets' = IssueGet(gets, LoginCookies(o, cookies))
                 /\ UNCHANGED result
    /\ caller' = "none"
    /\ poll_returns
    /\ UNCHANGED <<session, op, startAuth, credentials, calcVars>>

\* The retry GET is answered.
fetch_data_retry_response ==
    /\ pc = "get2"
    /\ \E r \in GetOutcomes :
         /\ gets' = Answered(gets, r)
         /\ result' = IF r.exc # "none" THEN HandOver(Raised(r.exc))
                      ELSE IF RetryFailed(r) THEN Returned(EmptyMap)
                      ELSE HandOver(ParseAndProcess(RetryPayload(gets[1].resp, r)))
    /\ pc' = "idle"
    /\ poll_returns
    /\ UNCHANGED <<cookies, is_authenticated, session, caller, op, startAuth,
                   events, logins, lastLogin, credentials, calcVars>>

\* A mutated close: the session state is forgotten with the connection.
close_forgets_session ==
    /\ pc = "idle" /\ hass_data # "popped"
    /\ session' = "none"
    /\ op' = "close"
    /\ cookies' = {}
    /\ is_authenticated' = FALSE
    /\ UNCHANGED <<pc, caller, startAuth, events, logins, lastLogin, gets, result,
                   credentials, hostVars, calcVars>>

\* close()
close ==
    /\ pc = "idle" /\ hass_data # "popped"
    /\ session' = "none"
    /\ op' = "close"
    /\ UNCHANGED <<cookies, is_authenticated, pc, caller, startAuth, events,
                   logins, lastLogin, gets, result, credentials, hostVars, calcVars>>

\* async_unload_entry: the platforms are unloaded and, when that succeeded,
\* the entry (client and coordinator) is popped from hass.data.
async_unload_entry ==
    /\ pc = "idle" /\ hass_data = "registered"
    /\ \E unload_ok \in BOOLEAN :
         hass_data' = IF unload_ok THEN "popped" ELSE hass_data
    /\ UNCHANGED <<cookies, is_authenticated, session, pc, caller, op, startAuth,
                   events, logins, lastLogin, gets, result, credentials,
                   coordinator, poll, calcVars>>

Next ==
    \/ login
    \/ login_returns
    \/ fetch_data
    \/ fetch_data_after_login
    \/ fetch_data_response
    \/ fetch_data_after_relogin
    \/ fetch_data_retry_response
    \/ close
    \/ async_unload_entry

Spec == Init /\ [][Next]_vars

(***************************************************************************)
(* Properties of the session client (checked under Spec).                  *)
(***************************************************************************)
Last(q) == q[Len(q)]

\* fetch_data has returned (or let an exception through) and nothing ran since.
FetchDone == op = "fetch" /\ pc = "idle"

\* A GET was answered with a status other than 200.
Refused(g) == g.resp.exc = "none" /\ g.resp.status # HTTP_OK

\* C1: in an invocation of fetch_data whose first GET is answered non-200,
\* exactly one login and then exactly one retry GET follow it; no invocation
\* issues more than two GETs; and when the retry is non-200 too the
\* invocation returns {} after those two GETs.
C1_OneReloginOneRetry ==
    /\ Len(gets) <= 2
    /\ (FetchDone /\ gets # <<>> /\ Refused(gets[1])) =>
          /\ events = (IF startAuth THEN <<>> ELSE <<"login">>) \o <<"get", "login", "get">>
          /\ Len(gets) = 2
          /\ Len(logins) = (IF startAuth THEN 1 ELSE 2)
          /\ Refused(gets[2]) => result = Returned(EmptyMap)

\* Both GETs of one invocation were refused and it returned.
C1_Witness ==
    /\ FetchDone /\ Len(gets) = 2
    /\ Refused(gets[1]) /\ Refused(gets[2])
    /\ result = Returned(EmptyMap)

\* C2: fetch_data entered unauthenticated calls login before anything else,
\* and when that login fails it returns {} without a single GET.
C2_FailedLoginNoGet ==
    /\ (op = "fetch" /\ ~startAuth) => (events # <<>> /\ events[1] = "login")
    /\ (FetchDone /\ ~startAuth /\ logins # <<>> /\ ~logins[1].ret) =>
          /\ result = Returned(EmptyMap)
          /\ gets = <<>>
          /\ events = <<"login">>

\* An unauthenticated fetch_data whose login failed has returned.
C2_Witness ==
    /\ FetchDone /\ ~startAuth
    /\ Len(logins) = 1 /\ ~logins[1].ret
    /\ gets = <<>> /\ result = Returned(EmptyMap)

\* C3: after any login that fails (non-200, network error, or 200 without
\* cookies) the session is unauthenticated, whatever it was before, and the
\* failure is returned as a value, not raised.
C3_FailedLoginUnauthenticated ==
    (lastLogin.done /\ ~lastLogin.ret) => (~is_authenticated /\ ~lastLogin.raised)

\* C4: login returns True exactly when its response has status 200 and at
\* least one cookie; after such a login the stored cookie set is the cookie
\* set of that response and the session is authenticated.
C4_LoginSuccessCriterion ==
    /\ \A i \in 1..Len(logins) :
          logins[i].ret <=> /\ logins[i].outcome.exc = "none"
                            /\ logins[i].outcome.status = HTTP_OK
                            /\ logins[i].outcome.cookies # {}
    /\ (lastLogin.done /\ lastLogin.ret) =>
          /\ cookies = lastLogin.outcome.cookies
          /\ is_authenticated

\* A login succeeded on a client that held a different cookie before: the
\* stored set is the new one alone.
C4_Witness ==
    /\ Len(logins) = 2 /\ logins[1].ret /\ logins[2].ret
    /\ logins[1].outcome.cookies \ logins[2].outcome.cookies # {}
    /\ cookies = logins[2].outcome.cookies

\* C5: when the most recent login got a 200 answer with a non-empty cookie
\* set, the next fetch_data issues its first GET at once, without a login,
\* and that GET carries exactly that cookie set.
C5_NextFetchAttachesLoginCookies ==
    [][(pc = "idle" /\ pc' # "idle" /\ op' = "fetch" /\ lastLogin.done /\ lastLogin.ret) =>
          /\ pc' = "get1"
          /\ events' = <<"get">>
          /\ logins' = <<>>
          /\ gets'[1].cookies = lastLogin.outcome.cookies]_vars

\* A fetch_data that followed a successful login has its first GET in flight.
C5_Witness ==
    /\ op = "fetch" /\ pc = "get1" /\ events = <<"get">>
    /\ lastLogin.done /\ lastLogin.ret /\ lastLogin.outcome.cookies # {}
    /\ gets[1].cookies = lastLogin.outcome.cookies

\* C6: when the first GET is answered non-200, the re-login succeeds and the
\* retry is answered 200, fetch_data returns what the normalizer makes of
\* the retry's payload ({} where parsing or normalizing it fails), and the
\* retry GET carries the cookie set of that re-login.
C6_RetryPayloadReturned ==
    (/\ FetchDone /\ Len(gets) = 2 /\ Refused(gets[1])
     /\ Last(logins).ret
     /\ gets[2].resp.exc = "none" /\ gets[2].resp.status = HTTP_OK) =>
        LET n == ParseAndProcess(gets[2].resp.body)
        IN /\ result = Returned(IF n.exc = "none" THEN n.val ELSE EmptyMap)
           /\ gets[2].cookies = Last(logins).outcome.cookies

\* A retry returned a snapshot that the first response's payload would not
\* have given.
C6_Witness ==
    /\ FetchDone /\ Len(gets) = 2 /\ Refused(gets[1])
    /\ Last(logins).ret
    /\ gets[2].resp.exc = "none" /\ gets[2].resp.status = HTTP_OK
    /\ result.exc = "none" /\ DOMAIN result.val = SnapshotKeys
    /\ result # ParseAndProcess(gets[1].resp.body)
    /\ gets[2].cookies # gets[1].cookies

\* C7: every invocation of fetch_data ends by returning a mapping, {} or a
\* full snapshot, for every login outcome, GET status, network error,
\* unparsable body and malformed payload; no exception reaches the caller,
\* and an invocation makes at most four requests before it returns.
C7_AlwaysReturnsValue ==
    /\ result.exc \in {"none", "pending"}
    /\ Len(events) <= 4
    /\ FetchDone =>
          /\ result.exc = "none"
          /\ result.val = EmptyMap \/ DOMAIN result.val = SnapshotKeys
    /\ (op = "fetch" /\ pc # "idle") =>
          (result = NoResult /\ ENABLED (fetch_data_after_login \/ fetch_data_response
                                          \/ fetch_data_after_relogin
                                          \/ fetch_data_retry_response))

\* fetch_data returned {} for a 200 answer whose payload made the
\* normalizer raise.
C7_Witness ==
    /\ FetchDone /\ gets # <<>>
    /\ Last(gets).resp.exc = "none" /\ Last(gets).resp.status = HTTP_OK
    /\ ParseAndProcess(Last(gets).resp.body).exc = "IndexError"
    /\ result = Returned(EmptyMap)

(***************************************************************************)
(* The normalizer on its own: every dataset within the bounds is an        *)
(* initial state, and the one action applies _process_device_data to it.   *)
(***************************************************************************)
RowVals == {StrV(1), IntV(7)}
SeqsUpTo(S, n) == UNION {[1..k -> S] : k \in 0..n}
Rows == SeqsUpTo(RowVals, MaxRowLen)
LinesSet == SeqsUpTo(Rows, MaxLines)
CodeArrays == SeqsUpTo(CodeNames, MaxCodes)

DdhSet ==
    {NoDdh, NullDdh}
    \cup [kind : {"dict"}, hasCodes : {TRUE}, codes : CodeArrays,
          hasLines : {FALSE}, lines : {<<>>}]
    \cup [kind : {"dict"}, hasCodes : {TRUE}, codes : CodeArrays,
          hasLines : {TRUE}, lines : LinesSet]
    \cup [kind : {"dict"}, hasCodes : {FALSE}, codes : {<<>>},
          hasLines : {TRUE}, lines : LinesSet]

NormInputs ==
    [online : {Absent}, connected : {Absent}, lastSeenDateTime : {Absent}, ddh : DdhSet]
    \cup [online : {BoolV(TRUE)}, connected : {BoolV(FALSE)},
          lastSeenDateTime : {StrV(1)}, ddh : DdhSet]

\* The row indices _process_device_data reads (none when it returns early).
ReadsOf(data) ==
    IF /\ ~DictIsEmpty(data)
       /\ data.ddh.kind = "dict"
       /\ data.ddh.hasLines
       /\ data.ddh.lines # <<>>
       /\ LatestLine(data.ddh.lines) # <<>>
    THEN RowReads(IF data.ddh.hasCodes THEN data.ddh.codes ELSE <<>>)
    ELSE {}

InitNorm ==
    /\ ClientInit
    /\ norm \in [called : {FALSE}, data : NormInputs, out : {NoResult}, reads : {{}}]
    /\ sensor = SensorIdle
    /\ ConcIdle

\* One call of _process_device_data on the dataset drawn.
normalize ==
    /\ ~norm.called
    /\ norm' = [called |-> TRUE, data |-> norm.data,
                out |-> process_device_data(norm.data), reads |-> ReadsOf(norm.data)]
    /\ UNCHANGED <<clientVars, sensor, concVars>>

NextNorm == normalize

SpecNorm == InitNorm /\ [][NextNorm]_vars

(***************************************************************************)
(* Properties of the normalizer (checked under SpecNorm).                  *)
(***************************************************************************)
CodesOf(data) == IF data.ddh.hasCodes THEN data.ddh.codes ELSE <<>>
InCodes(codes, c) == \E i \in 1..Len(codes) : codes[i] = c
AbsentCodes(data) == {c \in KnownCodes : ~InCodes(CodesOf(data), c)}

\* deviceDataHistory, or its lines member, is not there.
StructureMissing(data) == data.ddh.kind # "dict" \/ ~data.ddh.hasLines

KeyOf(c) ==
    CASE c = "waterUse" -> "water_consumption"
      [] c = "regenCount" -> "regeneration_count"
      [] c = "powerOutage" -> "power_outage"
      [] c = "saltAlarm" -> "salt_alarm"
DefaultOf(c) == IF c \in {"waterUse", "regenCount"} THEN IntV(0) ELSE BoolV(FALSE)

\* The normalizer returned a snapshot.
Normalized == norm.called /\ norm.out.exc = "none" /\ norm.out.val # EmptyMap

\* There is no history to normalize: the structure is missing, or (as the
\* empty-lines rule has it) lines holds no row.
NoHistory(data) == StructureMissing(data) \/ data.ddh.lines = <<>>

\* C8: the normalizer is total: for every dataset, rows shorter than the
\* column of a known code and empty rows included, it returns a result and
\* never fails; and it returns {} only when there is no history (the
\* deviceDataHistory/lines structure is missing or holds no row).
C8_NormalizerTotal ==
    norm.called =>
        /\ norm.out.exc = "none"
        /\ norm.out.val = EmptyMap => NoHistory(norm.data)

\* C9: a known code that is not in codes yields its default (0 or false) in
\* the snapshot and in every history entry, and no row is read at an index
\* derived from it: rows are read at 0 and at the positions of the known
\* codes that are in codes, nowhere else, and an IndexError comes from one
\* of those positions.
C9_AbsentCodeDefaults ==
    norm.called =>
        LET codes == CodesOf(norm.data)
            lines == norm.data.ddh.lines
            positions == {0} \cup {i \in 0..(Len(codes) - 1) : codes[i + 1] \in KnownCodes}
        IN /\ norm.reads \subseteq positions
           /\ \A c \in AbsentCodes(norm.data) : CodeIndex(codes, c) \notin norm.reads
           /\ norm.out.exc = "IndexError" =>
                 \E r \in 1..Len(lines) : \E i \in positions : i >= Len(lines[r])
           /\ Normalized =>
                 \A c \in AbsentCodes(norm.data) :
                    /\ norm.out.val[KeyOf(c)] = DefaultOf(c)
                    /\ \A r \in 1..Len(norm.out.val.history) :
                          norm.out.val.history[r][KeyOf(c)] = DefaultOf(c)

\* A snapshot of two rows for codes that hold one known code and lack the
\* others, the rows ending in a value that is no default.
C9_Witness ==
    /\ Normalized
    /\ CodesOf(norm.data) = <<"date", "waterUse">>
    /\ Len(norm.data.ddh.lines) = 2
    /\ \A r \in 1..2 : Last(norm.data.ddh.lines[r]) = IntV(7)
    /\ norm.out.val.salt_alarm = BoolV(FALSE)
    /\ norm.out.val.history[2].regeneration_count = IntV(0)

\* The entry the mapping of codes to columns gives for one row.
ColumnOf(codes, c) == CHOOSE i \in 1..Len(codes) : codes[i] = c /\ \A j \in 1..(i - 1) : codes[j] # c
ValueAt(line, codes, c) == IF InCodes(codes, c) THEN line[ColumnOf(codes, c)] ELSE DefaultOf(c)
EntryOf(line, codes) ==
    [date               |-> line[1],
     water_consumption  |-> ValueAt(line, codes, "waterUse"),
     regeneration_count |-> ValueAt(line, codes, "regenCount"),
     power_outage       |-> ValueAt(line, codes, "powerOutage"),
     salt_alarm         |-> ValueAt(line, codes, "saltAlarm")]

\* What C10 says of a returned snapshot.
MirrorsLines(val, lines, codes) ==
    /\ DOMAIN val = SnapshotKeys
    /\ Len(val.history) = Len(lines)
    /\ \A r \in 1..Len(lines) : val.history[r] = EntryOf(lines[r], codes)
    /\ \A k \in MeasuredKeys : val[k] = EntryOf(lines[1], codes)[k]
    /\ \A k \in MeasuredKeys : val[k] = val.history[1][k]

\* C10: for a dataset with non-empty lines the snapshot's five measured
\* fields come from lines[0], and history has one entry per row of lines,
\* in order, history[i] extracted from lines[i] by the same mapping.
C10_HistoryMirrorsLines ==
    (norm.called /\ ~StructureMissing(norm.data) /\ norm.data.ddh.lines # <<>>) =>
        /\ norm.out.exc = "none"
        /\ MirrorsLines(norm.out.val, norm.data.ddh.lines, CodesOf(norm.data))

\* Every row holds the date and every column of a known code in codes.
RowsComplete(data) ==
    \A r \in 1..Len(data.ddh.lines) :
        /\ data.ddh.lines[r] # <<>>
        /\ \A c \in KnownCodes \ AbsentCodes(data) :
              ColumnOf(CodesOf(data), c) <= Len(data.ddh.lines[r])

\* What the code does do: on rows that hold every column it reads, the
\* snapshot and the history mirror lines.
CompleteRowsMirrored ==
    (/\ norm.called /\ ~StructureMissing(norm.data) /\ norm.data.ddh.lines # <<>>
     /\ ~DictIsEmpty(norm.data) /\ RowsComplete(norm.data)) =>
        /\ norm.out.exc = "none"
        /\ MirrorsLines(norm.out.val, norm.data.ddh.lines, CodesOf(norm.data))


\* C11: when deviceDataHistory or its lines member is absent from the
\* dataset, or lines is an empty array, the normalizer returns the empty
\* mapping and does not fail.
C11_NoHistoryEmptyMapping ==
    (/\ norm.called
     /\ \/ norm.data.ddh.kind = "absent"
        \/ norm.data.ddh.kind = "dict" /\ ~norm.data.ddh.hasLines
        \/ norm.data.ddh.kind = "dict" /\ norm.data.ddh.hasLines
           /\ norm.data.ddh.lines = <<>>) =>
        (norm.out = Returned(EmptyMap) /\ DOMAIN norm.out.val = {})

\* The normalizer was given a dataset with device fields and codes but no
\* lines member.
C11_Witness ==
    /\ norm.called
    /\ norm.data.online # Absent
    /\ norm.data.ddh.kind = "dict" /\ ~norm.data.ddh.hasLines
    /\ norm.data.ddh.codes # <<>>
    /\ norm.out = Returned(EmptyMap)


(***************************************************************************)
(* Shape of the value fetch_data returns (checked under Spec).             *)
(***************************************************************************)
\* The dataset of the response fetch_data parsed last.
ParsedDataset == Last(gets).resp.body.dataset

\* C12: a value returned by fetch_data is the empty mapping or a mapping
\* with all nine keys, where online and connected are false and last_seen
\* is the empty string when the dataset lacks them, and every history entry
\* has the five measured fields; a mapping with some of the keys only is
\* never returned.
C12_AllOrNothing ==
    FetchDone =>
      /\ result.exc = "none"
      /\ \/ result.val = EmptyMap
         \/ /\ DOMAIN result.val = SnapshotKeys
            /\ \A k \in SnapshotKeys \ {"history"} : result.val[k] # Absent
            /\ ParsedDataset.online = Absent => result.val.online = BoolV(FALSE)
            /\ ParsedDataset.connected = Absent => result.val.connected = BoolV(FALSE)
            /\ ParsedDataset.lastSeenDateTime = Absent => result.val.last_seen = StrV(0)
            /\ ParsedDataset.online # Absent => result.val.online = ParsedDataset.online
            /\ \A i \in 1..Len(result.val.history) :
                  DOMAIN result.val.history[i] = MeasuredKeys

\* fetch_data returned a snapshot of a dataset that has none of online,
\* connected and lastSeenDateTime.
C12_Witness ==
    /\ FetchDone /\ result.exc = "none"
    /\ DOMAIN result.val = SnapshotKeys
    /\ ParsedDataset.online = Absent /\ ParsedDataset.connected = Absent
    /\ ParsedDataset.lastSeenDateTime = Absent
    /\ result.val.online = BoolV(FALSE) /\ result.val.last_seen = StrV(0)
    /\ Len(result.val.history) = 2


(***************************************************************************)
(* The sensors after a poll (checked under Spec).                          *)
(***************************************************************************)
\* How the latest completed poll ended.
LatestPoll == IF poll.last = "running" THEN poll.prev ELSE poll.last

AllUnavailable ==
    \A s \in Sensors :
        /\ ~available(coordinator, SensorKey[s])
        /\ native_value(coordinator, s, DEFAULT_WATER_PRICE) = NoneV

\* C13: whenever the latest poll failed, or returned a mapping without the
\* sensor's key, every sensor is unavailable and its native_value is None:
\* neither the value of an earlier successful poll nor an error is reported.
C13_FailedPollUnavailable ==
    /\ LatestPoll \in {"failed", "raised"} => AllUnavailable
    /\ \A s \in Sensors :
          (FetchDone /\ result.exc = "none" /\ SensorKey[s] \notin DOMAIN result.val) =>
              /\ ~available(coordinator, SensorKey[s])
              /\ native_value(coordinator, s, DEFAULT_WATER_PRICE) = NoneV

\* A poll failed after one that had returned a snapshot.
C13_Witness ==
    /\ FetchDone /\ poll.prev = "snapshot" /\ poll.last = "failed"
    /\ result = Returned(EmptyMap)
    /\ AllUnavailable

(***************************************************************************)
(* The derived sensors on a meter reading: Init draws the reading and the  *)
(* price, one action reads the two sensors.                                *)
(***************************************************************************)
MaxLiters == 2345    \* greatest water_consumption drawn
MaxPrice == 8        \* greatest unit price drawn, in half euros

\* A coordinator holding a snapshot whose water_consumption is liters.
SnapshotOf(liters) ==
    [refreshed |-> TRUE, last_update_success |-> TRUE,
     data |-> [date |-> StrV(1), water_consumption |-> IntV(liters),
               regeneration_count |-> IntV(0), power_outage |-> BoolV(FALSE),
               salt_alarm |-> BoolV(FALSE), online |-> BoolV(TRUE),
               connected |-> BoolV(TRUE), last_seen |-> StrV(1), history |-> <<>>]]

InitSensor ==
    /\ ClientInit
    /\ norm = NormIdle
    /\ sensor \in [read : {FALSE}, liters : 0..MaxLiters, price : 1..MaxPrice,
                   cubic_meters : {NoneV}, cost : {NoneV}]
    /\ ConcIdle

\* Home Assistant reads the cubic-meter and the cost sensor.
read_sensors ==
    /\ ~sensor.read
    /\ sensor' = [sensor EXCEPT
         !.read = TRUE,
         !.cubic_meters = native_value(SnapshotOf(sensor.liters), "cubic_meters", sensor.price),
         !.cost = native_value(SnapshotOf(sensor.liters), "cost", sensor.price)]
    /\ UNCHANGED <<clientVars, norm, concVars>>

NextSensor == read_sensors

SpecSensor == InitSensor /\ [][NextSensor]_vars

Abs(x) == IF x < 0 THEN -x ELSE x

\* C14 as stated: the cost is the rounded cubic-meter value times the unit
\* price, rounded to 2 decimals; 2345 liters read 2.35 cubic meters and, at
\* 3.5 per cubic meter, cost 8.23.
C14_CostOfRoundedCubicMeters ==
    sensor.read =>
        /\ Abs(2 * sensor.cost[2] - sensor.cubic_meters[2] * sensor.price) <= 1
        /\ (sensor.liters = 2345 /\ sensor.price = DEFAULT_WATER_PRICE) =>
              (sensor.cubic_meters = FloatV(235) /\ sensor.cost = FloatV(823))

\* C14, amended: the cubic-meter sensor reports liters / 1000 rounded to 2
\* decimals, and the cost sensor reports liters / 1000 times the unit price
\* rounded to 2 decimals, from the unrounded quotient; 2345 liters read 2.35
\* cubic meters and, at 3.5 per cubic meter, cost 8.21.
C14_CostOfUnroundedQuotient ==
    sensor.read =>
        /\ Abs(10 * sensor.cubic_meters[2] - sensor.liters) <= 5
        /\ Abs(20 * sensor.cost[2] - sensor.liters * sensor.price) <= 10
        /\ (sensor.liters = 2345 /\ sensor.price = DEFAULT_WATER_PRICE) =>
              (sensor.cubic_meters = FloatV(235) /\ sensor.cost = FloatV(821))

\* The sensors were read on 2345 liters at 3.5 per cubic meter.
C14_Witness ==
    /\ sensor.read /\ sensor.liters = 2345 /\ sensor.price = DEFAULT_WATER_PRICE
    /\ sensor.cubic_meters = FloatV(235)
    /\ sensor.cost = FloatV(821)


(***************************************************************************)
(* Lifetime of the HTTP session (checked under Spec).                      *)
(***************************************************************************)
\* C15: once async_unload_entry has popped the entry of a client that had
\* opened an HTTP session, that session has been closed: no open session is
\* left that the host registry no longer reaches.
C15_SessionReleasedOnUnload == hass_data = "popped" => session = "none"


(***************************************************************************)
(* Polls that follow one another (checked under Spec).                     *)
(***************************************************************************)
\* The login of this invocation that precedes its i-th GET (0: there is none).
LoginBeforeGet(i) == IF startAuth THEN i - 1 ELSE i

\* The vendor accepted the credentials.
Accepted(l) ==
    l.outcome.exc = "none" /\ l.outcome.status = HTTP_OK /\ l.outcome.cookies # {}

\* The vendor answered 200 with data.
GoodAnswer(g) ==
    /\ g.resp.exc = "none" /\ g.resp.status = HTTP_OK
    /\ g.resp.body \in {BodyOf(DatasetA), BodyOf(DatasetB)}

\* The vendor's part during the current invocation: every login is accepted;
\* a GET carrying the cookies of the login before it is answered 200 with
\* data, a GET carrying other cookies after a login, or none at all, is
\* refused, and a GET carrying cookies of an earlier invocation is answered
\* 200 with data or refused.
Cooperative ==
    /\ \A i \in 1..Len(logins) : Accepted(logins[i])
    /\ \A i \in 1..Len(gets) :
          IF LoginBeforeGet(i) >= 1
          THEN IF gets[i].cookies = logins[LoginBeforeGet(i)].outcome.cookies
               THEN GoodAnswer(gets[i]) ELSE Refused(gets[i])
          ELSE IF gets[i].cookies = {} THEN Refused(gets[i])
               ELSE GoodAnswer(gets[i]) \/ Refused(gets[i])

\* C16: the fetch_data that follows one which returned the failure result
\* runs the whole sequence again (login first if unauthenticated, then the
\* GET, and after a refused GET one re-login and one retry), and returns a
\* snapshot if the vendor cooperates during it.
C16_FailedPollRecovers ==
    (op = "fetch" /\ poll.prev = "failed") =>
        /\ events[1] = (IF startAuth THEN "get" ELSE "login")
        /\ (FetchDone /\ gets # <<>> /\ Refused(gets[1])) =>
              /\ events = (IF startAuth THEN <<>> ELSE <<"login">>) \o <<"get", "login", "get">>
              /\ Len(gets) = 2
        /\ (FetchDone /\ Cooperative) =>
              (result.exc = "none" /\ DOMAIN result.val = SnapshotKeys)

\* A client left authenticated with an empty cookie set by a failed poll
\* returned a snapshot on the next one, through a re-login and a retry.
C16_Witness ==
    /\ FetchDone /\ poll.prev = "failed" /\ Cooperative
    /\ startAuth /\ gets[1].cookies = {}
    /\ events = <<"get", "login", "get">>
    /\ result.exc = "none" /\ DOMAIN result.val = SnapshotKeys

\* A client whose first login had failed returned a snapshot on the next poll.
RecoversUnauthenticated ==
    /\ FetchDone /\ poll.prev = "failed" /\ Cooperative
    /\ ~startAuth /\ events = <<"login", "get">>
    /\ result.exc = "none" /\ DOMAIN result.val = SnapshotKeys


\* The first GET of the invocation was answered 200.
FirstGetOk == gets # <<>> /\ gets[1].resp.exc = "none" /\ gets[1].resp.status = HTTP_OK

\* The invocation has called login.
LoggedIn == \E i \in 1..Len(events) : events[i] = "login"

\* The first poll of a fresh client performs one login before its GET.
FirstUseLogin ==
    (op = "fetch" /\ poll.fresh) =>
        (events[1] = "login" /\ (Len(events) >= 2 => events[2] = "get"))

\* A poll logs in only if it started unauthenticated or its first GET was
\* refused.
LoginOnlyWhenNeeded ==
    (op = "fetch" /\ LoggedIn) => (~startAuth \/ (gets # <<>> /\ Refused(gets[1])))

\* C17 as stated: the first poll of a fresh client performs one login before
\* its GET, every later poll whose first GET returns 200 performs no login
\* at all, and a poll logs in only if it started unauthenticated or its
\* first GET returned non-200.
C17_LoginOnFirstUseAndExpiryOnly ==
    /\ FirstUseLogin
    /\ (op = "fetch" /\ poll.prev # "none" /\ FirstGetOk) => ~LoggedIn
    /\ LoginOnlyWhenNeeded

\* C17, amended: the first poll of a fresh client performs one login before
\* its GET; a later poll that starts authenticated and whose first GET
\* returns 200 performs no login at all; a later poll that starts
\* unauthenticated performs one login before its first GET, also when that
\* GET returns 200; and a poll logs in only if it started unauthenticated or
\* its first GET returned non-200.
C17_LoginWhenUnauthenticatedOrRefused ==
    /\ FirstUseLogin
    /\ (op = "fetch" /\ poll.prev # "none" /\ startAuth /\ FirstGetOk) => ~LoggedIn
    /\ (op = "fetch" /\ poll.prev # "none" /\ ~startAuth /\ FirstGetOk) =>
          events = <<"login", "get">>
    /\ LoginOnlyWhenNeeded

\* A later poll of an authenticated client got 200 on its first GET and
\* returned without a login.
C17_Witness ==
    /\ FetchDone /\ poll.prev = "snapshot" /\ startAuth /\ FirstGetOk
    /\ events = <<"get">> /\ logins = <<>>

\* A later poll of a client whose logins had all failed logged in before a
\* first GET that was answered 200.
LaterPollLogsIn ==
    /\ FetchDone /\ poll.prev = "failed" /\ ~startAuth /\ FirstGetOk
    /\ events = <<"login", "get">>


(***************************************************************************)
(* Who changes the session state (checked under Spec).                     *)
(***************************************************************************)
\* C19: the stored cookie set and the authenticated flag change only in a
\* step of login() (the answer of its POST): entering an operation, a GET
\* response of any status, normalizing, a caught exception and close() leave
\* them as they are; username, password and device key never change.
C19_SessionStateOwnedByLogin ==
    [][/\ pc # "login" => (cookies' = cookies /\ is_authenticated' = is_authenticated)
       /\ credentials' = credentials]_vars

\* Two refused GETs and a re-login that met a network error left the cookie
\* set and the flag of the client as they were.
C19_Witness ==
    /\ FetchDone /\ Len(gets) = 2 /\ Refused(gets[1]) /\ Refused(gets[2])
    /\ startAuth /\ Last(logins).outcome.exc = "ClientError"
    /\ is_authenticated /\ cookies # {} /\ cookies = gets[1].cookies
    /\ credentials = Credentials

\* close() on an authenticated client: connection gone, session state kept.
ClosedKeepsSession ==
    op = "close" /\ session = "none" /\ is_authenticated /\ cookies # {}

\* C20: in every reachable state, is_authenticated being true implies that
\* the stored cookie set is not empty.
C20_AuthenticatedHasCookies == is_authenticated => cookies # {}


(***************************************************************************)
(* Two invocations of login() / fetch_data() running concurrently on one   *)
(* client.  The event loop switches tasks at awaits only; between the      *)
(* return of login() and the GET that follows it in fetch_data the exit of *)
(* the POST's context manager is awaited, so the two are separate steps.   *)
(***************************************************************************)
\* What the tasks leave alone: the bookkeeping of the sequential client.
seqVars == <<pc, caller, op, startAuth, events, logins, lastLogin, gets, result,
             credentials, hostVars, norm, sensor>>

InitConc == ClientInit /\ norm = NormIdle /\ sensor = SensorIdle /\ ConcIdle

\* The cookie sets of the login responses so far (a response that is not
\* 200 has its cookies ignored).
Issued(o, sets) == IF o.exc = "none" /\ ~LoginRejected(o) THEN sets \cup {o.cookies} ELSE sets

Suspended(where, who, carried) == [pc |-> where, caller |-> who, sent |-> carried]

\* Task t calls login(): up to the await of the POST.
task_login(t) ==
    /\ tasks[t].pc = "idle"
    /\ tasks' = [tasks EXCEPT ![t] = Suspended("login", "direct", {})]
    /\ session' = "open"
    /\ UNCHANGED <<cookies, is_authenticated, issued, seqVars>>

\* Task t calls fetch_data(): login first when unauthenticated, else the GET
\* with the cookies stored now.
task_fetch_data(t) ==
    /\ tasks[t].pc = "idle"
    /\ tasks' = [tasks EXCEPT ![t] =
                   IF NeedsLogin(is_authenticated) THEN Suspended("login", "pre", {})
                   ELSE Suspended("get1", "none", GetCookies(cookies))]
    /\ session' = "open"
    /\ UNCHANGED <<cookies, is_authenticated, issued, seqVars>>

\* The POST of task t is answered: login() stores cookies and flag in one
\* step and returns to its caller.
task_login_answered(t) ==
    /\ tasks[t].pc = "login"
    /\ \E o \in LoginOutcomes :
         /\ cookies' = LoginCookies(o, cookies)
         /\ is_authenticated' = LoginAuth(o, is_authenticated)
         /\ issued' = Issued(o, issued)
         /\ tasks' = [tasks EXCEPT ![t] =
                        IF tasks[t].caller = "direct" \/ LoginRaises(o) THEN TaskIdle
                        ELSE IF tasks[t].caller = "pre" /\ ~ProceedAfterLogin(LoginReturn(o))
                        THEN TaskIdle
                        ELSE Suspended("issue", tasks[t].caller, {})]
    /\ UNCHANGED <<session, seqVars>>

\* Task t, back in fetch_data after a login, issues its GET with the cookies
\* stored now.
task_issue_get(t) ==
    /\ tasks[t].pc = "issue"
    /\ tasks' = [tasks EXCEPT ![t] =
                   Suspended(IF tasks[t].caller = "pre" THEN "get1" ELSE "get2", "none",
                             GetCookies(cookies))]
    /\ UNCHANGED <<cookies, is_authenticated, session, issued, seqVars>>

\* The first GET of task t is answered.
task_response(t) ==
    /\ tasks[t].pc = "get1"
    /\ \E r \in GetOutcomes :
         tasks' = [tasks EXCEPT ![t] =
                     IF r.exc = "none" /\ NeedsRetry(r) THEN Suspended("login", "re", {})
                     ELSE TaskIdle]
    /\ UNCHANGED <<cookies, is_authenticated, session, issued, seqVars>>

\* The retry GET of task t is answered.
task_retry_response(t) ==
    /\ tasks[t].pc = "get2"
    /\ tasks' = [tasks EXCEPT ![t] = TaskIdle]
    /\ UNCHANGED <<cookies, is_authenticated, session, issued, seqVars>>

NextConc ==
    \E t \in Tasks :
        \/ task_login(t)
        \/ task_fetch_data(t)
        \/ task_login_answered(t)
        \/ task_issue_get(t)
        \/ task_response(t)
        \/ task_retry_response(t)

SpecConc == InitConc /\ [][NextConc]_vars

\* Task t has a GET in flight.
Getting(t) == tasks[t].pc \in {"get1", "get2"}

\* C18: under any interleaving of two invocations, the cookie set a GET
\* carries is the whole cookie set of one login response, or the initial
\* empty set: never a mix of two responses nor a part of one.
C18_GetCarriesOneLoginsCookies ==
    \A t \in Tasks : Getting(t) => tasks[t].sent \in issued \cup {{}}

\* While the GET of one task is in flight with the cookies of one login,
\* the login of the other task has replaced the stored set by another.
C18_Witness ==
    \E t \in Tasks, u \in Tasks :
        /\ t # u /\ Getting(t) /\ tasks[u].pc \in {"issue", "get1", "get2"}
        /\ tasks[t].sent # {} /\ cookies # {} /\ tasks[t].sent # cookies
        /\ tasks[t].sent \in issued /\ cookies \in issued
        /\ ~(tasks[t].sent \cup cookies \in issued)


\* C21: the authenticated flag is monotonic: once is_authenticated is true,
\* no step of login(), fetch_data() or close(), whatever its outcome, sets
\* it back to false.
C21_AuthenticatedMonotonic ==
    [][is_authenticated => is_authenticated']_vars

\* An authenticated client went through a login that failed and then a
\* close(), and is authenticated still.
C21_Witness ==
    /\ op = "close" /\ session = "none"
    /\ lastLogin.done /\ ~lastLogin.ret /\ lastLogin.authBefore
    /\ is_authenticated

\* An authenticated client went through a poll that failed (GET refused,
\* re-login rejected, retry refused), and is authenticated still.
FailedPollKeepsFlag ==
    /\ FetchDone /\ startAuth /\ result = Returned(EmptyMap)
    /\ Len(gets) = 2 /\ Refused(gets[2]) /\ LoginRejected(Last(logins).outcome)
    /\ is_authenticated

====
